---- MODULE Spec2Model ----
(***************************************************************************)
(* Model of the analysis orchestration layer of impact-analyser:           *)
(* AIAnalysisService.analyzeImpact (src/lib/ai-analysis.ts) with its       *)
(* result cache, provider registry, retry loop and timeout race, the       *)
(* provider adapters' settle behaviour, and the configuration store        *)
(* (src/config/ai-config.ts) it reads.                                     *)
(*                                                                         *)
(* JavaScript is single threaded: an async function runs without           *)
(* interruption from one await to the next.  Every action below is one     *)
(* such run-to-completion step.  Time is the millisecond clock `now`, read *)
(* by Date.now() and driving setTimeout.                                   *)
(***************************************************************************)
EXTENDS Integers, Sequences, FiniteSets, TLC

(* ------------------------------ bounds --------------------------------- *)
NumSlots == 2
MaxInvocations == 2
MaxAdapterCalls == 3
MaxTime == 64000
MaxConfigUpdates == 1
MaxServers == 3
MaxDiagrams == 2
MaxImpacts == 4

Slots == 1..NumSlots

(* --------------------------- program constants ------------------------- *)
MsPerSecond == 1000
SecondsPerMinute == 60
BackoffUnit == 1000
MockDefaultLatency == 2000

(* --------------------------- strings and JSON -------------------------- *)
\* A string is a sequence of characters; a word that never needs to be
\* split is carried as one character.  Q is the double quote, BS the
\* backslash.
Q == "\""
BS == "\\"

RECURSIVE JsonEscape(_)
JsonEscape(s) ==
  IF s = << >> THEN << >>
  ELSE (IF Head(s) = Q \/ Head(s) = BS THEN <<BS, Head(s)>> ELSE <<Head(s)>>)
       \o JsonEscape(Tail(s))

JsonString(s) == <<Q>> \o JsonEscape(s) \o <<Q>>

Undefined == <<"undefined">>

\* JSON.stringify of an object given as a sequence of <<key, serialized value>>
\* pairs; a member whose value is undefined is left out.
RECURSIVE JsonMembers(_, _)
JsonMembers(pairs, first) ==
  IF pairs = << >> THEN << >>
  ELSE IF Head(pairs)[2] = Undefined THEN JsonMembers(Tail(pairs), first)
  ELSE (IF first THEN << >> ELSE <<",">>)
       \o JsonString(<<Head(pairs)[1]>>) \o <<":">> \o Head(pairs)[2]
       \o JsonMembers(Tail(pairs), FALSE)

JsonObject(pairs) == <<"{">> \o JsonMembers(pairs, TRUE) \o <<"}">>

RECURSIVE JsonElements(_, _)
JsonElements(items, first) ==
  IF items = << >> THEN << >>
  ELSE (IF first THEN << >> ELSE <<",">>) \o Head(items)
       \o JsonElements(Tail(items), FALSE)

JsonArray(items) == <<"[">> \o JsonElements(items, TRUE) \o <<"]">>

OptString(s) == IF s = Undefined THEN Undefined ELSE JsonString(s)

StringifyServer(s) ==
  JsonObject(<< <<"deployment", JsonString(s.deployment)>>,
                <<"ram", JsonString(s.ram)>>,
                <<"os", JsonString(s.os)>>,
                <<"disk", JsonString(s.disk)>>,
                <<"type", JsonString(s.type)>>,
                <<"customRam", OptString(s.customRam)>>,
                <<"customDisk", OptString(s.customDisk)>> >>)

StringifyDiagram(d) ==
  JsonObject(<< <<"type", JsonString(d.type)>>,
                <<"name", JsonString(d.name)>>,
                <<"content", OptString(d.content)>> >>)

StringifyChangeRequest(c) ==
  JsonObject(<< <<"type", JsonString(c.type)>>,
                <<"content", JsonString(c.content)>> >>)

StringifyRequest(r) ==
  JsonObject(<< <<"architecture", JsonString(r.architecture)>>,
                <<"servers",
                  JsonArray([k \in 1..Len(r.servers) |-> StringifyServer(r.servers[k])])>>,
                <<"diagrams",
                  JsonArray([k \in 1..Len(r.diagrams) |-> StringifyDiagram(r.diagrams[k])])>>,
                <<"changeRequest", StringifyChangeRequest(r.changeRequest)>> >>)

\* Variant: the key is the serialized request alone.
generateCacheKey_NoModel(request, modelId) == StringifyRequest(request)

generateCacheKey(request, modelId) == modelId \o <<"-">> \o StringifyRequest(request)


(* ------------------------------ requests ------------------------------- *)
ContainerServer ==
  [deployment |-> <<"cloud">>, ram |-> <<"16GB">>, os |-> <<"linux">>,
   disk |-> <<"ssd">>, type |-> <<"container">>,
   customRam |-> Undefined, customDisk |-> Undefined]

\* The same server with a custom RAM size entered.
CustomRamServer == [ContainerServer EXCEPT !.customRam = <<"24GB">>]

\* The word the development adapter looks for in a diagram's source.  A text
\* is a sequence of pieces; this word is spelled letter by letter wherever
\* it occurs.
DatabaseWord == <<"d", "a", "t", "a", "b", "a", "s", "e">>

MermaidDatabase ==
  [type |-> <<"mermaid">>, name |-> <<"Mermaid Diagram">>,
   content |-> <<"erDiagram", " ">> \o DatabaseWord]

PdfDiagram ==
  [type |-> <<"pdf">>, name |-> <<"Mermaid Diagram">>, content |-> Undefined]

TextChange(s) == [type |-> <<"text">>, content |-> s]

BaseRequest ==
  [architecture |-> <<"microservices">>, servers |-> <<ContainerServer>>,
   diagrams |-> <<MermaidDatabase>>, changeRequest |-> TextChange(<<"a">>)]

\* The requests a caller (src/app/page.tsx handleAnalyze) passes in this
\* model: a base request and four that differ from it in one part each, the
\* change request, the architecture, a server and a diagram.
RequestTable ==
  << BaseRequest,
     [BaseRequest EXCEPT !.changeRequest = TextChange(<<"a", Q, "-", "{">>)],
     [BaseRequest EXCEPT !.architecture = <<"monolithic">>],
     [BaseRequest EXCEPT !.servers = <<CustomRamServer>>],
     [BaseRequest EXCEPT !.diagrams = <<PdfDiagram>>] >>

RequestIds == 1..Len(RequestTable)
Request(k) == RequestTable[k]
\* Request number 0 stands for no request.

(* --------------------------- configuration ----------------------------- *)
\* defaultConfig.ai.models, with the fields analyzeImpact and the adapters
\* read.  apiKey is the truthiness of the configured key.
GptId == <<"gpt", "-", "4">>
GeminiId == <<"gemini", "-", "pro">>
MockId == <<"mock", "-", "ai">>
UnknownId == <<"none">>

defaultModels ==
  << [id |-> GptId, name |-> "GPT-4", provider |-> "openai",
      apiKey |-> TRUE, timeout |-> 30000],
     [id |-> GeminiId, name |-> "Gemini Pro", provider |-> "gemini",
      apiKey |-> FALSE, timeout |-> 30000],
     [id |-> MockId, name |-> "Mock AI (Development)", provider |-> "custom",
      apiKey |-> FALSE, timeout |-> 2000] >>

ModelIdValues == {GptId, GeminiId, MockId, UnknownId}
CacheExpiryValues == {1}
MaxRetriesValues == -1..3
AnalysisTimeoutValues == {1000, 3000}

AnalysisSpace ==
  [analysisTimeout : AnalysisTimeoutValues, maxRetries : MaxRetriesValues,
   cacheResults : BOOLEAN, cacheExpiry : CacheExpiryValues]

NoModel == [id |-> << >>, name |-> "undefined", provider |-> "undefined",
            apiKey |-> FALSE, timeout |-> 0]

\* ConfigManager.getAIModel: Array.prototype.find, first match or undefined.
RECURSIVE Find(_, _)
Find(ms, modelId) ==
  IF ms = << >> THEN NoModel
  ELSE IF Head(ms).id = modelId THEN Head(ms) ELSE Find(Tail(ms), modelId)

getAIModel(cfg, modelId) == Find(cfg.models, modelId)

\* Variant: an unknown default model id falls back to the first model.
getDefaultAIModel_Fallback(cfg) ==
  IF getAIModel(cfg, cfg.defaultModel) = NoModel THEN cfg.models[1]
  ELSE getAIModel(cfg, cfg.defaultModel)

getDefaultAIModel(cfg) == getAIModel(cfg, cfg.defaultModel)

(* ------------------------------ adapters ------------------------------- *)
ProviderIds == {"openai", "gemini", "mock", "custom"}
AdapterKinds == {"OpenAI", "Gemini", "Mock"}
NoProvider == "undefined"

\* AIAnalysisService.initializeProviders
initializeProviders ==
  [p \in ProviderIds |->
     CASE p = "openai" -> "OpenAI"
       [] p = "gemini" -> "Gemini"
       [] p = "mock" -> "Mock"
       [] OTHER -> NoProvider]

\* The adapters that throw when model.apiKey is falsy.
RequiresApiKey(kind) == kind \in {"OpenAI", "Gemini"}

ApiKeyError(kind) ==
  IF kind = "OpenAI" THEN "OpenAI API key not configured"
  ELSE "Gemini API key not configured"

\* How a remote call can end once the request is on the wire.
NetFailure == {"API error"}

TimeoutError == "Analysis timeout"
NoModelError == "No AI model configured"
ProviderNotFoundError == "AI provider not available"
RetriesExhaustedError == "Analysis failed after all retries"
NoError == "null"

\* MockAIProvider.analyze: model.timeout || 2000
MockLatency(model) == IF model.timeout = 0 THEN MockDefaultLatency ELSE model.timeout

(* ------------------------ the development adapter ---------------------- *)
\* An ImpactedComponent: its name (with the server number the name carries,
\* 0 when it carries none), type and impactLevel.  description and
\* mitigationSteps are fixed per name and are left out.
Component(name, index, type, level) ==
  [name |-> name, index |-> index, type |-> type, impactLevel |-> level]

Severities == {"LOW", "MEDIUM", "HIGH", "CRITICAL"}

\* Variant: a monolithic architecture is rated MEDIUM.
analyzeArchitectureImpact_Monolithic(architecture) ==
  IF architecture = <<"microservices">>
  THEN << Component("Service Communication", 0, "service", "MEDIUM") >>
  ELSE IF architecture = <<"monolithic">>
  THEN << Component("Application Deployment", 0, "service", "MEDIUM") >>
  ELSE << >>

\* Variant: every architecture but microservices is treated as monolithic.
analyzeArchitectureImpact_Other(architecture) ==
  IF architecture = <<"microservices">>
  THEN << Component("Service Communication", 0, "service", "MEDIUM") >>
  ELSE << Component("Application Deployment", 0, "service", "HIGH") >>

\* MockAIProvider.analyzeArchitectureImpact
analyzeArchitectureImpact(architecture) ==
  IF architecture = <<"microservices">>
  THEN << Component("Service Communication", 0, "service", "MEDIUM") >>
  ELSE IF architecture = <<"monolithic">>
  THEN << Component("Application Deployment", 0, "service", "HIGH") >>
  ELSE << >>

\* servers.forEach((server, index) => ...) from position index on.
RECURSIVE ServerImpacts(_, _)
ServerImpacts(servers, index) ==
  IF index > Len(servers) THEN << >>
  ELSE (IF servers[index].type = <<"container">>
        THEN << Component("Container Orchestration", index, "server", "MEDIUM") >>
        ELSE IF servers[index].type = <<"serverless">>
        THEN << Component("Serverless Functions", index, "server", "LOW") >>
        ELSE << >>)
       \o ServerImpacts(servers, index + 1)

\* Variant: a server type is reported once only.
RECURSIVE ServerImpactsOnce(_, _)
ServerImpactsOnce(servers, index) ==
  IF index > Len(servers) THEN << >>
  ELSE (IF \E j \in 1..(index - 1) : servers[j].type = servers[index].type
        THEN << >>
        ELSE IF servers[index].type = <<"container">>
        THEN << Component("Container Orchestration", index, "server", "MEDIUM") >>
        ELSE IF servers[index].type = <<"serverless">>
        THEN << Component("Serverless Functions", index, "server", "LOW") >>
        ELSE << >>)
       \o ServerImpactsOnce(servers, index + 1)

analyzeServerImpact_Once(servers) == ServerImpactsOnce(servers, 1)

\* MockAIProvider.analyzeServerImpact
analyzeServerImpact(servers) == ServerImpacts(servers, 1)

\* String.prototype.includes
Includes(text, word) ==
  \E i \in 1..(Len(text) - Len(word) + 1) :
    SubSeq(text, i, i + Len(word) - 1) = word

\* A string is truthy unless it is undefined or empty.
Truthy(text) == text # Undefined /\ text # << >>

RECURSIVE DiagramInsights(_)
DiagramInsights(diagrams) ==
  IF diagrams = << >> THEN << >>
  ELSE (IF /\ Head(diagrams).type = <<"mermaid">>
           /\ Truthy(Head(diagrams).content)
           /\ Includes(Head(diagrams).content, DatabaseWord)
        THEN << Component("Database Dependencies", 0, "database", "HIGH") >>
        ELSE << >>)
       \o DiagramInsights(Tail(diagrams))

\* Variant: the diagram's type is not looked at.
RECURSIVE DiagramInsightsAnyType(_)
DiagramInsightsAnyType(diagrams) ==
  IF diagrams = << >> THEN << >>
  ELSE (IF /\ Truthy(Head(diagrams).content)
           /\ Includes(Head(diagrams).content, DatabaseWord)
        THEN << Component("Database Dependencies", 0, "database", "HIGH") >>
        ELSE << >>)
       \o DiagramInsightsAnyType(Tail(diagrams))

analyzeDiagramInsights_AnyType(diagrams) == DiagramInsightsAnyType(diagrams)

\* MockAIProvider.analyzeDiagramInsights
analyzeDiagramInsights(diagrams) == DiagramInsights(diagrams)

\* impacts.filter(i => i.impactLevel === level).length
RECURSIVE CountLevel(_, _)
CountLevel(impacts, level) ==
  IF impacts = << >> THEN 0
  ELSE (IF Head(impacts).impactLevel = level THEN 1 ELSE 0)
       + CountLevel(Tail(impacts), level)

\* Variant: two HIGH components are enough for an overall HIGH.
calculateOverallRiskLevel_AtLeast(impacts) ==
  IF CountLevel(impacts, "CRITICAL") > 0 THEN "CRITICAL"
  ELSE IF CountLevel(impacts, "HIGH") >= 2 THEN "HIGH"
  ELSE IF CountLevel(impacts, "HIGH") > 0 \/ Len(impacts) > 3 THEN "MEDIUM"
  ELSE "LOW"

\* MockAIProvider.calculateOverallRiskLevel
calculateOverallRiskLevel(impacts) ==
  IF CountLevel(impacts, "CRITICAL") > 0 THEN "CRITICAL"
  ELSE IF CountLevel(impacts, "HIGH") > 2 THEN "HIGH"
  ELSE IF CountLevel(impacts, "HIGH") > 0 \/ Len(impacts) > 3 THEN "MEDIUM"
  ELSE "LOW"

\* The decimal numeral of a small number, as a template literal prints it.
NumberString(n) ==
  <<"0", "1", "2", "3", "4", "5", "6", "7", "8", "9">>[n + 1]

\* MockAIProvider.generateSummary
generateSummary(request, impacts) ==
  <<"Analysis of the proposed changes reveals ", NumberString(Len(impacts)),
    " potentially impacted components across the ">>
  \o request.architecture \o <<" architecture. ">>
  \o (IF CountLevel(impacts, "CRITICAL") > 0
      THEN <<"Critical impacts identified in ",
             NumberString(CountLevel(impacts, "CRITICAL")),
             " areas require immediate attention.">>
      ELSE <<"All impacts are manageable with proper planning.">>)

Recommendation(priority, category, title) ==
  [priority |-> priority, category |-> category, title |-> title]

\* MockAIProvider.generateRecommendations
generateRecommendations(impacts) ==
  (IF \E k \in DOMAIN impacts : impacts[k].type = "database"
   THEN << Recommendation("HIGH", "technical", "Database Impact Assessment") >>
   ELSE << >>)
  \o << Recommendation("MEDIUM", "security", "Security Review"),
        Recommendation("MEDIUM", "operational", "Deployment Planning") >>

\* The weight estimateEffort gives a severity.
EffortWeight(level) ==
  CASE level = "CRITICAL" -> 4
    [] level = "HIGH" -> 3
    [] level = "MEDIUM" -> 2
    [] level = "LOW" -> 1
    [] OTHER -> 0

RECURSIVE TotalImpact(_)
TotalImpact(impacts) ==
  IF impacts = << >> THEN 0
  ELSE EffortWeight(Head(impacts).impactLevel) + TotalImpact(Tail(impacts))

\* Variant: the upper bounds of the buckets are exclusive.
estimateEffort_Exclusive(impacts) ==
  IF TotalImpact(impacts) < 3 THEN "1-2 weeks"
  ELSE IF TotalImpact(impacts) < 6 THEN "2-4 weeks"
  ELSE IF TotalImpact(impacts) < 10 THEN "1-2 months"
  ELSE "2-3 months"

\* MockAIProvider.estimateEffort
estimateEffort(impacts) ==
  IF TotalImpact(impacts) <= 3 THEN "1-2 weeks"
  ELSE IF TotalImpact(impacts) <= 6 THEN "2-4 weeks"
  ELSE IF TotalImpact(impacts) <= 10 THEN "1-2 months"
  ELSE "2-3 months"

\* Variant: a HIGH component makes the timeline urgent as well.
estimateTimeline_HighUrgent(impacts) ==
  IF CountLevel(impacts, "CRITICAL") > 0 \/ CountLevel(impacts, "HIGH") > 0
  THEN <<estimateEffort(impacts), " (Urgent - Critical impacts detected)">>
  ELSE <<estimateEffort(impacts), " (Standard timeline)">>

\* MockAIProvider.estimateTimeline
estimateTimeline(impacts) ==
  IF CountLevel(impacts, "CRITICAL") > 0
  THEN <<estimateEffort(impacts), " (Urgent - Critical impacts detected)">>
  ELSE <<estimateEffort(impacts), " (Standard timeline)">>

HasServerOfType(request, type) ==
  \E k \in DOMAIN request.servers : request.servers[k].type = type

MicroservicesDependencies ==
  <<"Service Discovery Service", "API Gateway", "Load Balancer">>
ContainerDependencies ==
  <<"Container Orchestration Platform", "Container Registry">>
ServerlessDependencies == <<"Serverless Platform", "Event Bus">>

\* The names of position index on, when every server adds its own.
RECURSIVE ServerDependencies(_, _)
ServerDependencies(servers, index) ==
  IF index > Len(servers) THEN << >>
  ELSE (IF servers[index].type = <<"container">> THEN ContainerDependencies
        ELSE IF servers[index].type = <<"serverless">>
        THEN ServerlessDependencies
        ELSE << >>)
       \o ServerDependencies(servers, index + 1)

\* Variant: every container or serverless server adds its names.
identifyDependencies_PerServer(request) ==
  (IF request.architecture = <<"microservices">>
   THEN MicroservicesDependencies ELSE << >>)
  \o ServerDependencies(request.servers, 1)

\* Variant: the server-derived names come before the architecture-derived.
identifyDependencies_ServersFirst(request) ==
  (IF HasServerOfType(request, <<"container">>)
   THEN ContainerDependencies ELSE << >>)
  \o (IF HasServerOfType(request, <<"serverless">>)
      THEN ServerlessDependencies ELSE << >>)
  \o (IF request.architecture = <<"microservices">>
      THEN MicroservicesDependencies ELSE << >>)

\* MockAIProvider.identifyDependencies
identifyDependencies(request) ==
  (IF request.architecture = <<"microservices">>
   THEN MicroservicesDependencies ELSE << >>)
  \o (IF HasServerOfType(request, <<"container">>)
      THEN ContainerDependencies ELSE << >>)
  \o (IF HasServerOfType(request, <<"serverless">>)
      THEN ServerlessDependencies ELSE << >>)

\* The result generateImpactReport builds from the three passes' components
\* in one list.
Report(allImpacts, request, model, t) ==
  [summary |-> generateSummary(request, allImpacts),
   riskLevel |-> calculateOverallRiskLevel(allImpacts),
   impactedComponents |-> allImpacts,
   recommendations |-> generateRecommendations(allImpacts),
   estimatedEffort |-> estimateEffort(allImpacts),
   timeline |-> estimateTimeline(allImpacts),
   dependencies |-> identifyDependencies(request),
   modelUsed |-> model.name,
   analysisTimestamp |-> t]

\* MockAIProvider.generateImpactReport
generateImpactReport(architectureImpact, serverImpact, diagramInsights, request, model, t) ==
  Report(architectureImpact \o serverImpact \o diagramInsights,
         request, model, t)

\* MockAIProvider.analyze after its simulated latency, at time t.
MockAnalyze(request, model, t) ==
  generateImpactReport(analyzeArchitectureImpact(request.architecture),
                       analyzeServerImpact(request.servers),
                       analyzeDiagramInsights(request.diagrams),
                       request, model, t)

(* ------------------------- the remote adapters ------------------------- *)
\* The reply text of a remote backend, as a sequence of pieces: an opening
\* brace, a closing brace, a well-formed JSON member "key": value (v numbers
\* the value), or any other text.
OpenBrace == [kind |-> "{", key |-> "", v |-> 0]
CloseBrace == [kind |-> "}", key |-> "", v |-> 0]
OtherText == [kind |-> "text", key |-> "", v |-> 0]
Member(key, v) == [kind |-> "member", key |-> key, v |-> v]

\* The fields of ImpactAnalysisResult a reply is asked to carry.
ReplyFields ==
  <<"summary", "riskLevel", "impactedComponents", "recommendations",
    "estimatedEffort", "timeline", "dependencies">>

\* The value a member carries.
MemberValue(key, v) ==
  CASE key = "summary" -> <<"Brief summary of the analysis">>
    [] key = "riskLevel" -> IF v = 1 THEN "LOW" ELSE "HIGH"
    [] key = "impactedComponents" ->
         IF v = 1 THEN << >>
         ELSE << Component("Component Name", 0, "database", "HIGH") >>
    [] key = "recommendations" ->
         << Recommendation("HIGH", "technical", "Recommendation Title") >>
    [] key = "estimatedEffort" -> "1-2 weeks"
    [] key = "timeline" -> <<"2-4 weeks", " (Standard timeline)">>
    [] key = "dependencies" -> <<"Dependency 1", "Dependency 2">>

\* response.match(/\{[\s\S]*\}/): from the first opening brace to the last
\* closing brace after it.
Opens(text) == {i \in DOMAIN text : text[i].kind = "{"}
FirstOpen(text) == CHOOSE i \in Opens(text) : \A j \in Opens(text) : i <= j
ClosesAfter(text, i) == {j \in DOMAIN text : j > i /\ text[j].kind = "}"}
HasJsonMatch(text) ==
  Opens(text) # {} /\ ClosesAfter(text, FirstOpen(text)) # {}
LastClose(text) ==
  CHOOSE j \in ClosesAfter(text, FirstOpen(text)) :
    \A k \in ClosesAfter(text, FirstOpen(text)) : k <= j
JsonMatch(text) == SubSeq(text, FirstOpen(text), LastClose(text))

\* JSON.parse of a matched text: it throws unless members only stand between
\* the braces; a key given twice keeps its last value.
Inner(matched) == SubSeq(matched, 2, Len(matched) - 1)
JsonParses(matched) ==
  \A k \in DOMAIN Inner(matched) : Inner(matched)[k].kind = "member"
ParsedKeys(matched) ==
  {Inner(matched)[k].key : k \in DOMAIN Inner(matched)}
LastOf(matched, key) ==
  CHOOSE k \in DOMAIN Inner(matched) :
    /\ Inner(matched)[k].key = key
    /\ \A j \in DOMAIN Inner(matched) : Inner(matched)[j].key = key => j <= k
JsonParse(matched) ==
  [key \in ParsedKeys(matched) |->
     MemberValue(key, Inner(matched)[LastOf(matched, key)].v)]

\* OpenAIProvider.generateFallbackResponse and
\* GeminiProvider.generateFallbackResponse
generateFallbackResponse(kind, modelName, t) ==
  [summary |->
     IF kind = "OpenAI"
     THEN <<"Analysis completed using AI model. The proposed changes have been evaluated for potential impacts across the system architecture.">>
     ELSE <<"Analysis completed using Gemini AI model. The proposed changes have been evaluated for potential impacts across the system architecture.">>,
   riskLevel |-> "MEDIUM",
   impactedComponents |->
     << Component("System Architecture", 0, "service", "MEDIUM") >>,
   recommendations |->
     << Recommendation("MEDIUM", "technical", "Architecture Review") >>,
   estimatedEffort |-> "2-4 weeks",
   timeline |-> <<"1-2 months", " (Standard timeline)">>,
   dependencies |-> <<"Architecture Review", "Stakeholder Approval">>,
   modelUsed |-> modelName,
   analysisTimestamp |-> t]

\* { ...parsed, modelUsed: modelName, analysisTimestamp: new Date() }
Spread(parsed, modelName, t) ==
  [key \in DOMAIN parsed \cup {"modelUsed", "analysisTimestamp"} |->
     IF key = "modelUsed" THEN modelName
     ELSE IF key = "analysisTimestamp" THEN t
     ELSE parsed[key]]

\* OpenAIProvider.parseAIResponse and GeminiProvider.parseAIResponse
parseAIResponse(kind, response, modelName, t) ==
  IF HasJsonMatch(response) /\ JsonParses(JsonMatch(response))
  THEN Spread(JsonParse(JsonMatch(response)), modelName, t)
  ELSE generateFallbackResponse(kind, modelName, t)

(* --------------------- the adapters' inputs and outputs ---------------- *)
SeqsUpTo(S, n) == UNION {[1..k -> S] : k \in 0..n}

ArchitectureValues ==
  {<<"microservices">>, <<"monolithic">>, <<"client-server">>, <<"hybrid">>}
ServerTypeValues == {<<"container">>, <<"serverless">>, <<"virtual">>}
ServerValues == {[ContainerServer EXCEPT !.type = type] : type \in ServerTypeValues}

\* Diagram sources: one that names a database, one that spells it with a
\* capital, one that stops a letter short, and the empty source.
DiagramContentValues ==
  {<<"erDiagram", " ">> \o DatabaseWord,
   <<"D">> \o Tail(DatabaseWord),
   SubSeq(DatabaseWord, 1, Len(DatabaseWord) - 1),
   << >>}
DiagramValues ==
  {[MermaidDatabase EXCEPT !.content = content] : content \in DiagramContentValues}
  \cup {PdfDiagram, [PdfDiagram EXCEPT !.content = DatabaseWord]}

ChangeRequestValues ==
  {TextChange(<<"a">>), [type |-> <<"file">>, content |-> <<"change.pdf">>]}

RequestSpace ==
  [architecture : ArchitectureValues,
   servers : SeqsUpTo(ServerValues, MaxServers),
   diagrams : SeqsUpTo(DiagramValues, MaxDiagrams),
   changeRequest : ChangeRequestValues]

\* Component lists of every mix of severities.
ImpactsSpace ==
  SeqsUpTo({Component("Component Name", 0, "service", level) : level \in Severities},
           MaxImpacts)

\* The members of the fields numbered in ks, in the order of ReplyFields.
RECURSIVE Members(_, _, _)
Members(ks, k, v) ==
  IF k > Len(ReplyFields) THEN << >>
  ELSE (IF k \in ks THEN << Member(ReplyFields[k], v) >> ELSE << >>)
       \o Members(ks, k + 1, v)

\* Reply texts: with or without text around, a JSON object with any of the
\* fields, closed, left open or with text in it, or braces the wrong way
\* round.
ReplySpace ==
  {pre \o body \o post :
     pre \in {<< >>, <<OtherText>>}, post \in {<< >>, <<OtherText>>},
     body \in
       {<< >>, <<CloseBrace, OpenBrace>>}
       \cup {<<OpenBrace>> \o Members(ks, 1, v) \o end :
               ks \in SUBSET DOMAIN ReplyFields, v \in {1, 2},
               end \in {<<CloseBrace>>, << >>, <<OtherText, CloseBrace>>}}}
  \ {<< >>}

NoRequest == [architecture |-> << >>, servers |-> << >>, diagrams |-> << >>,
              changeRequest |-> TextChange(<< >>)]

Sample(kind, request, response, impacts) ==
  [kind |-> kind, request |-> request, response |-> response,
   impacts |-> impacts, done |-> FALSE, by |-> NoProvider, out |-> "none"]

NoProbe == Sample("none", NoRequest, << >>, << >>)

(* ------------------------------- state --------------------------------- *)
VARIABLES
  now,        \* Date.now() and the timer clock, in ms
  config,     \* ConfigManager.config (ai part)
  updates,    \* number of configuration updates made so far
  providers,  \* AIAnalysisService.providers
  cache,      \* AIAnalysisService.cache: set of [key, result, timestamp]
  inv,        \* the analyzeImpact invocations, one per slot
  calls,      \* adapter calls that have not settled yet
  nextId,     \* number of adapter calls made so far, plus one
  started,    \* number of analyzeImpact invocations started so far
  probe       \* one application of an adapter's result computation

vars ==
  <<now, config, updates, providers, cache, inv, calls, nextId, started, probe>>

NoResult == [id |-> 0, ts |-> 0, modelUsed |-> "undefined",
             req |-> 0, modelId |-> << >>]

NoAnalysis == [analysisTimeout |-> 0, maxRetries |-> 0,
               cacheResults |-> FALSE, cacheExpiry |-> 0]

Idle ==
  [pc |-> "idle", req |-> 0, analysis |-> NoAnalysis, model |-> NoModel,
   adapter |-> NoProvider, attempt |-> 0, lastError |-> NoError, errs |-> << >>,
   call |-> 0, deadline |-> 0, delay |-> 0, result |-> NoResult,
   error |-> NoError, via |-> "none", lookup |-> "none", invoked |-> 0]

Init ==
  /\ now = 0
  /\ config \in [models : {defaultModels}, defaultModel : ModelIdValues,
                 analysis : AnalysisSpace]
  /\ updates = 0
  /\ providers = initializeProviders
  /\ cache = {}
  /\ inv = [i \in Slots |-> Idle]
  /\ calls = {}
  /\ nextId = 1
  /\ started = 0
  /\ probe = NoProbe

(* ------------------------------- cache --------------------------------- *)
\* Map.get: the entry stored under the key, if any.
CacheHas(c, key) == \E e \in c : e.key = key
CacheGet(c, key) == CHOOSE e \in c : e.key = key

\* Map.set: replaces the entry stored under the key.
CacheSet(c, key, result, timestamp) ==
  {e \in c : e.key # key} \cup {[key |-> key, result |-> result, timestamp |-> timestamp]}

ExpiryMs(analysis) == analysis.cacheExpiry * SecondsPerMinute * MsPerSecond

\* Variant: the expiry is taken in seconds instead of minutes.
CacheHit_Seconds(c, key, analysis, t) ==
  /\ CacheHas(c, key)
  /\ (t - CacheGet(c, key).timestamp) < analysis.cacheExpiry * MsPerSecond

\* Variant: an entry whose age equals the expiry still counts as valid.
CacheHit_Inclusive(c, key, analysis, t) ==
  /\ CacheHas(c, key)
  /\ (t - CacheGet(c, key).timestamp) <= ExpiryMs(analysis)

\* The condition of the cache check in analyzeImpact.
CacheHit(c, key, analysis, t) ==
  /\ CacheHas(c, key)
  /\ (t - CacheGet(c, key).timestamp) < ExpiryMs(analysis)

(* ------------------------- analyzeImpact ------------------------------- *)
\* throw lastError || new Error('Analysis failed after all retries')
Surfaced(lastError) == IF lastError = NoError THEN RetriesExhaustedError ELSE lastError

\* Variant: the loop makes one attempt more than maxRetries.
OnFailure_OneMore(rec, err, t) ==
  LET r1 == [rec EXCEPT !.lastError = err, !.errs = Append(@, err), !.call = 0]
  IN IF rec.attempt <= rec.analysis.maxRetries
     THEN [r1 EXCEPT !.pc = "backoff",
                     !.delay = BackoffUnit * rec.attempt,
                     !.deadline = t + BackoffUnit * rec.attempt]
     ELSE [r1 EXCEPT !.pc = "rejected", !.error = Surfaced(r1.lastError),
                     !.deadline = 0]

\* Variant: lastError keeps the first error instead of the latest.
OnFailure_FirstError(rec, err, t) ==
  LET r1 == [rec EXCEPT !.lastError = IF @ = NoError THEN err ELSE @,
                        !.errs = Append(@, err), !.call = 0]
  IN IF rec.attempt < rec.analysis.maxRetries
     THEN [r1 EXCEPT !.pc = "backoff",
                     !.delay = BackoffUnit * rec.attempt,
                     !.deadline = t + BackoffUnit * rec.attempt]
     ELSE [r1 EXCEPT !.pc = "rejected", !.error = Surfaced(r1.lastError),
                     !.deadline = 0]

\* Variant: every backoff lasts one unit.
OnFailure_ConstantDelay(rec, err, t) ==
  LET r1 == [rec EXCEPT !.lastError = err, !.errs = Append(@, err), !.call = 0]
  IN IF rec.attempt < rec.analysis.maxRetries
     THEN [r1 EXCEPT !.pc = "backoff",
                     !.delay = BackoffUnit,
                     !.deadline = t + BackoffUnit]
     ELSE [r1 EXCEPT !.pc = "rejected", !.error = Surfaced(r1.lastError),
                     !.deadline = 0]

\* The catch block of the retry loop, entered at time t with the error of
\* the attempt; it ends either in the backoff delay or, the loop being over,
\* in the final throw.
OnFailure(rec, err, t) ==
  LET r1 == [rec EXCEPT !.lastError = err, !.errs = Append(@, err), !.call = 0]
  IN IF rec.attempt < rec.analysis.maxRetries
     THEN [r1 EXCEPT !.pc = "backoff",
                     !.delay = BackoffUnit * rec.attempt,
                     !.deadline = t + BackoffUnit * rec.attempt]
     ELSE [r1 EXCEPT !.pc = "rejected", !.error = Surfaced(r1.lastError),
                     !.deadline = 0]

\* An adapter whose analyze rejects before it awaits anything: the rejection
\* is delivered in the same turn of the event loop as the call.
FailsAtOnce(rec) == RequiresApiKey(rec.adapter) /\ ~rec.model.apiKey

\* The try block up to the await on Promise.race, for attempt number attempt:
\* the adapter is invoked as call id and the timer is set.
AttemptStart(rec, attempt, t, id) ==
  LET r1 == [rec EXCEPT !.attempt = attempt, !.invoked = @ + 1]
  IN IF FailsAtOnce(rec)
     THEN OnFailure(r1, ApiKeyError(rec.adapter), t)
     ELSE [r1 EXCEPT !.pc = "racing", !.call = id,
                     !.deadline = t + rec.analysis.analysisTimeout]

\* The adapter call an attempt leaves running.
NewCalls(rec, t, id) ==
  IF FailsAtOnce(rec) THEN {}
  ELSE {[id |-> id, kind |-> rec.adapter, req |-> rec.req,
         modelId |-> rec.model.id, modelUsed |-> rec.model.name,
         readyAt |-> IF rec.adapter = "Mock" THEN t + MockLatency(rec.model) ELSE 0]}

\* Variant: the loop body runs once before the bound is tested.
LoopEntry_AtLeastOnce(rec, t, id) == AttemptStart(rec, 1, t, id)

\* The retry loop entered with attempt = 1.
LoopEntry(rec, t, id) ==
  IF 1 <= rec.analysis.maxRetries
  THEN AttemptStart(rec, 1, t, id)
  ELSE [rec EXCEPT !.pc = "rejected", !.error = Surfaced(rec.lastError)]

\* What the cache check of the invocation found: it is skipped when caching
\* is off, and otherwise finds no entry, an expired entry or a valid one.
Lookup(c, key, analysis, t) ==
  IF ~analysis.cacheResults THEN "skipped"
  ELSE IF CacheHit(c, key, analysis, t) THEN "hit"
  ELSE IF CacheHas(c, key) THEN "stale"
  ELSE "absent"

\* Variant: a missing adapter counts as a failed first attempt of the loop.
Started_ProviderRetried(r, cfg, provs, c, t, id) ==
  LET model == getDefaultAIModel(cfg)
      key == generateCacheKey(Request(r), model.id)
      rec == [Idle EXCEPT !.req = r, !.analysis = cfg.analysis, !.model = model]
      missed == [rec EXCEPT !.lookup = Lookup(c, key, cfg.analysis, t)]
  IN IF model = NoModel
     THEN [rec EXCEPT !.pc = "rejected", !.error = NoModelError]
     ELSE IF cfg.analysis.cacheResults /\ CacheHit(c, key, cfg.analysis, t)
     THEN [rec EXCEPT !.pc = "resolved", !.result = CacheGet(c, key).result,
                      !.via = "cache", !.lookup = "hit"]
     ELSE IF provs[model.provider] = NoProvider
     THEN OnFailure([missed EXCEPT !.attempt = 1], ProviderNotFoundError, t)
     ELSE LoopEntry([missed EXCEPT !.adapter = provs[model.provider]], t, id)

\* analyzeImpact from its call to its first await (or to its return or throw
\* when it has none).
Started(r, cfg, provs, c, t, id) ==
  LET model == getDefaultAIModel(cfg)
      key == generateCacheKey(Request(r), model.id)
      rec == [Idle EXCEPT !.req = r, !.analysis = cfg.analysis, !.model = model]
      missed == [rec EXCEPT !.lookup = Lookup(c, key, cfg.analysis, t)]
  IN IF model = NoModel
     THEN [rec EXCEPT !.pc = "rejected", !.error = NoModelError]
     ELSE IF cfg.analysis.cacheResults /\ CacheHit(c, key, cfg.analysis, t)
     THEN [rec EXCEPT !.pc = "resolved", !.result = CacheGet(c, key).result,
                      !.via = "cache", !.lookup = "hit"]
     ELSE IF provs[model.provider] = NoProvider
     THEN [missed EXCEPT !.pc = "rejected", !.error = ProviderNotFoundError]
     ELSE LoopEntry([missed EXCEPT !.adapter = provs[model.provider]], t, id)

Max(a, b) == IF a > b THEN a ELSE b

\* Adapter calls the running invocations may still make.
RECURSIVE Reserved(_, _)
Reserved(f, S) ==
  IF S = {} THEN 0
  ELSE LET i == CHOOSE x \in S : TRUE
       IN (IF f[i].pc \in {"racing", "backoff"}
           THEN Max(f[i].analysis.maxRetries - f[i].attempt, 0) ELSE 0)
          + Reserved(f, S \ {i})

\* A slot holds one invocation from its call until the caller starts another
\* one in its place; the free slot of least index is taken.
Free(i) == inv[i].pc \in {"idle", "resolved", "rejected"}

\* Variant: the cache check deletes the expired entry it finds.
Call_Evicting(i, r) ==
  /\ Free(i)
  /\ \A j \in Slots : j < i => ~Free(j)
  /\ started < MaxInvocations
  /\ (nextId - 1) + Reserved(inv, Slots) + Max(config.analysis.maxRetries, 0)
       <= MaxAdapterCalls
  /\ LET rec == Started(r, config, providers, cache, now, nextId)
     IN /\ inv' = [inv EXCEPT ![i] = rec]
        /\ calls' = IF rec.pc = "racing" THEN calls \cup NewCalls(rec, now, nextId)
                    ELSE calls
        /\ nextId' = nextId + rec.invoked
        /\ cache' = IF rec.lookup = "stale"
                    THEN {e \in cache : e.key # generateCacheKey(Request(r), rec.model.id)}
                    ELSE cache
  /\ started' = started + 1
  /\ UNCHANGED <<probe, now, config, updates, providers>>

Call(i, r) ==
  /\ Free(i)
  /\ \A j \in Slots : j < i => ~Free(j)
  /\ started < MaxInvocations
  /\ (nextId - 1) + Reserved(inv, Slots) + Max(config.analysis.maxRetries, 0)
       <= MaxAdapterCalls
  /\ LET rec == Started(r, config, providers, cache, now, nextId)
     IN /\ inv' = [inv EXCEPT ![i] = rec]
        /\ calls' = IF rec.pc = "racing" THEN calls \cup NewCalls(rec, now, nextId)
                    ELSE calls
        /\ nextId' = nextId + rec.invoked
  /\ started' = started + 1
  /\ UNCHANGED <<probe, now, config, updates, providers, cache>>

\* Variant: every attempt looks the adapter up again.
BackoffDone_Reread(i) ==
  /\ inv[i].pc = "backoff"
  /\ now >= inv[i].deadline
  /\ LET cur == [inv[i] EXCEPT !.adapter = providers[inv[i].model.provider]]
         rec == AttemptStart(cur, inv[i].attempt + 1, now, nextId)
     IN /\ inv' = [inv EXCEPT ![i] = rec]
        /\ calls' = IF rec.pc = "racing" THEN calls \cup NewCalls(cur, now, nextId)
                    ELSE calls
  /\ nextId' = nextId + 1
  /\ UNCHANGED <<probe, now, config, updates, providers, cache, started>>

\* The backoff timer fires: the loop goes on with the next attempt.
BackoffDone(i) ==
  /\ inv[i].pc = "backoff"
  /\ now >= inv[i].deadline
  /\ LET rec == AttemptStart(inv[i], inv[i].attempt + 1, now, nextId)
     IN /\ inv' = [inv EXCEPT ![i] = rec]
        /\ calls' = IF rec.pc = "racing" THEN calls \cup NewCalls(inv[i], now, nextId)
                    ELSE calls
  /\ nextId' = nextId + 1
  /\ UNCHANGED <<probe, now, config, updates, providers, cache, started>>

\* The rest of the try block after the race was won by a result.
OnSuccess(rec, result) ==
  [rec EXCEPT !.pc = "resolved", !.result = result, !.via = "provider",
              !.call = 0, !.deadline = 0]

\* Variant: the result is stored whatever cacheResults says.
StoreResult_Always(c, rec, result, t) ==
  CacheSet(c, generateCacheKey(Request(rec.req), rec.model.id), result, t)

\* Variant: an entry already stored under the key is kept.
StoreResult_KeepFirst(c, rec, result, t) ==
  IF rec.analysis.cacheResults
     /\ ~CacheHas(c, generateCacheKey(Request(rec.req), rec.model.id))
  THEN CacheSet(c, generateCacheKey(Request(rec.req), rec.model.id), result, t)
  ELSE c

\* The cache write after a successful attempt, made only if caching is on.
StoreResult(c, rec, result, t) ==
  IF rec.analysis.cacheResults
  THEN CacheSet(c, generateCacheKey(Request(rec.req), rec.model.id), result, t)
  ELSE c

\* Variant: a race is also decided by a call left over from an earlier attempt.
Awaiting_Leftover(id) == {i \in Slots : inv[i].pc = "racing" /\ inv[i].call >= id}

\* The attempts whose race the adapter call id can still decide.
Awaiting(id) == {i \in Slots : inv[i].pc = "racing" /\ inv[i].call = id}

ResultOf(c, t) ==
  [id |-> c.id, ts |-> t, modelUsed |-> c.modelUsed, req |-> c.req, modelId |-> c.modelId]

\* An adapter call settles with a result.  If its attempt is still racing the
\* attempt succeeds; a call whose race is over settles unobserved.
Resolves(c) ==
  /\ calls' = calls \ {c}
  /\ IF Awaiting(c.id) = {}
     THEN UNCHANGED <<inv, cache>>
     ELSE LET i == CHOOSE x \in Awaiting(c.id) : TRUE
              result == ResultOf(c, now)
          IN /\ inv' = [inv EXCEPT ![i] = OnSuccess(inv[i], result)]
             /\ cache' = StoreResult(cache, inv[i], result, now)
  /\ UNCHANGED <<probe, now, config, updates, providers, nextId, started>>

\* Variant: the catch block stores a result for the failed attempt.
Rejects_Storing(c, err) ==
  /\ calls' = calls \ {c}
  /\ IF Awaiting(c.id) = {}
     THEN UNCHANGED <<inv, cache>>
     ELSE LET i == CHOOSE x \in Awaiting(c.id) : TRUE
          IN /\ inv' = [inv EXCEPT ![i] = OnFailure(inv[i], err, now)]
             /\ cache' = StoreResult(cache, inv[i], ResultOf(c, now), now)
  /\ UNCHANGED <<probe, now, config, updates, providers, nextId, started>>

\* An adapter call settles with an error.
Rejects(c, err) ==
  /\ calls' = calls \ {c}
  /\ IF Awaiting(c.id) = {}
     THEN UNCHANGED inv
     ELSE LET i == CHOOSE x \in Awaiting(c.id) : TRUE
          IN inv' = [inv EXCEPT ![i] = OnFailure(inv[i], err, now)]
  /\ UNCHANGED <<probe, now, config, updates, providers, cache, nextId, started>>

\* OpenAIProvider.analyze / GeminiProvider.analyze after the fetch: the reply
\* arrives at a time of the network's choosing.
NetResolve(c) ==
  /\ c \in calls
  /\ c.kind \in {"OpenAI", "Gemini"}
  /\ Resolves(c)

NetReject(c, err) ==
  /\ c \in calls
  /\ c.kind \in {"OpenAI", "Gemini"}
  /\ Rejects(c, err)

\* MockAIProvider.analyze after its simulated processing time.
MockDone(c) ==
  /\ c \in calls
  /\ c.kind = "Mock"
  /\ now >= c.readyAt
  /\ Resolves(c)

\* Timers of equal due time fire in the order they were set; the mock
\* adapter's timer is set before the race timer of its attempt.
MockFirst(i) ==
  \E c \in calls : c.id = inv[i].call /\ c.kind = "Mock" /\ c.readyAt <= inv[i].deadline

\* Variant: the timeout also ends the adapter call.
Timeout_Aborting(i) ==
  /\ inv[i].pc = "racing"
  /\ now >= inv[i].deadline
  /\ ~MockFirst(i)
  /\ inv' = [inv EXCEPT ![i] = OnFailure(inv[i], TimeoutError, now)]
  /\ calls' = {c \in calls : c.id # inv[i].call}
  /\ UNCHANGED <<probe, now, config, updates, providers, cache, nextId, started>>

\* Variant: the race has no timer, nothing happens when the time is up.
Timeout_Lost(i) ==
  /\ inv[i].pc = "racing"
  /\ now >= inv[i].deadline
  /\ ~MockFirst(i)
  /\ UNCHANGED vars

\* The race timer fires while the adapter call is pending: the attempt fails
\* with the timeout error and the adapter call goes on.  (The timer of a race
\* the adapter won is never cleared either; when it fires it rejects a promise
\* nobody waits for, which changes nothing, so it is not kept here.)
Timeout(i) ==
  /\ inv[i].pc = "racing"
  /\ now >= inv[i].deadline
  /\ ~MockFirst(i)
  /\ inv' = [inv EXCEPT ![i] = OnFailure(inv[i], TimeoutError, now)]
  /\ UNCHANGED <<probe, now, config, updates, providers, cache, calls, nextId, started>>

(* --------------------- the other public operations --------------------- *)
clearCache ==
  /\ cache # {}
  /\ cache' = {}
  /\ UNCHANGED <<probe, now, config, updates, providers, inv, calls, nextId, started>>

registerProvider(providerId, kind) ==
  /\ updates < MaxConfigUpdates
  /\ providers[providerId] # kind
  /\ providers' = [providers EXCEPT ![providerId] = kind]
  /\ updates' = updates + 1
  /\ UNCHANGED <<probe, now, config, cache, inv, calls, nextId, started>>

\* ConfigManager.updateConfig with an `ai` part: a copy of the current one
\* with another default model (as AIModelSelector.handleModelChange builds
\* it) or with result caching switched on or off.
updateConfig(modelId, cacheResults) ==
  /\ updates < MaxConfigUpdates
  /\ config' = [config EXCEPT !.defaultModel = modelId,
                              !.analysis.cacheResults = cacheResults]
  /\ config' # config
  /\ updates' = updates + 1
  /\ UNCHANGED <<probe, now, providers, cache, inv, calls, nextId, started>>

(* -------------------------------- time --------------------------------- *)
\* Due times of the timers that are set and have not fired.
Deadlines ==
  {inv[i].deadline : i \in {j \in Slots : inv[j].pc \in {"racing", "backoff"}}}
  \cup {c.readyAt : c \in {d \in calls : d.kind = "Mock"}}

\* Time passes until the next pending timer is due.
AdvanceToTimer ==
  /\ Deadlines # {}
  /\ \A t \in Deadlines : now < t
  /\ now' = CHOOSE t \in Deadlines : \A u \in Deadlines : t <= u
  /\ UNCHANGED <<probe, config, updates, providers, cache, inv, calls, nextId, started>>

\* Long pauses: just below the cache expiry, and the cache expiry.
IdleSteps == {59000, 60000}

\* Time passes by d, never beyond the due time of a pending timer.
Advance(d) ==
  /\ now + d <= MaxTime
  /\ \A t \in Deadlines : now + d <= t
  /\ now' = now + d
  /\ UNCHANGED <<probe, config, updates, providers, cache, inv, calls, nextId, started>>

Next ==
  \/ \E i \in Slots, r \in RequestIds : Call(i, r)
  \/ \E i \in Slots : BackoffDone(i)
  \/ \E c \in calls : NetResolve(c)
  \/ \E c \in calls, err \in NetFailure : NetReject(c, err)
  \/ \E c \in calls : MockDone(c)
  \/ \E i \in Slots : Timeout(i)
  \/ clearCache
  \/ \E p \in {"custom", "openai"} : registerProvider(p, "Mock")
  \/ \E m \in ModelIdValues, b \in BOOLEAN : updateConfig(m, b)
  \/ AdvanceToTimer
  \/ \E d \in IdleSteps : Advance(d)

Spec == Init /\ [][Next]_vars

\* The event loop runs every timer that is due, and time goes on until the
\* next timer is due.  Nothing makes a remote backend answer.
TimersFire ==
  /\ WF_vars(AdvanceToTimer)
  /\ WF_vars(\E c \in calls : MockDone(c))
  /\ \A i \in Slots : WF_vars(Timeout(i)) /\ WF_vars(BackoffDone(i))

\* The steps of Next for two requests, with the configuration updates that
\* select the keyless model gemini-pro and that put the development adapter
\* in the place of the OpenAI one.
FairNext ==
  \/ \E i \in Slots, r \in {1, 2} : Call(i, r)
  \/ \E i \in Slots : BackoffDone(i)
  \/ \E c \in calls : NetResolve(c)
  \/ \E c \in calls, err \in NetFailure : NetReject(c, err)
  \/ \E c \in calls : MockDone(c)
  \/ \E i \in Slots : Timeout(i)
  \/ clearCache
  \/ registerProvider("openai", "Mock")
  \/ updateConfig(GeminiId, TRUE)
  \/ AdvanceToTimer
  \/ Advance(60000)

FairSpec == Init /\ [][FairNext]_vars /\ TimersFire

(* ---------------- the adapters' result computation alone --------------- *)
\* defaultConfig.ai of src/config/ai-config.ts
defaultConfig ==
  [models |-> defaultModels, defaultModel |-> MockId,
   analysis |-> [analysisTimeout |-> 30000, maxRetries |-> 3,
                 cacheResults |-> TRUE, cacheExpiry |-> 60]]

AdapterInit ==
  /\ now = 0
  /\ config = defaultConfig
  /\ updates = 0
  /\ providers = initializeProviders
  /\ cache = {}
  /\ inv = [i \in Slots |-> Idle]
  /\ calls = {}
  /\ nextId = 1
  /\ started = 0
  /\ probe \in {Sample("request", request, << >>, << >>) : request \in RequestSpace}
          \cup {Sample("reply", NoRequest, response, << >>) : response \in ReplySpace}
          \cup {Sample("impacts", NoRequest, << >>, impacts) : impacts \in ImpactsSpace}
          \cup {Sample("effort", NoRequest, << >>, impacts) : impacts \in ImpactsSpace}

Service == <<now, config, updates, providers, cache, inv, calls, nextId, started>>

\* MockAIProvider.analyze computes its result for the request.
MockRun ==
  /\ probe.kind = "request" /\ ~probe.done
  /\ probe' = [probe EXCEPT !.done = TRUE, !.by = "Mock",
                 !.out = MockAnalyze(probe.request,
                                     getAIModel(config, MockId), now)]
  /\ UNCHANGED Service

\* A remote adapter turns the reply text into its result.
RemoteRun(kind, modelId) ==
  /\ probe.kind = "reply" /\ ~probe.done
  /\ probe' = [probe EXCEPT !.done = TRUE, !.by = kind,
                 !.out = parseAIResponse(kind, probe.response,
                                         getAIModel(config, modelId).name, now)]
  /\ UNCHANGED Service

\* The severity rollup of a component list.
Rollup ==
  /\ probe.kind = "impacts" /\ ~probe.done
  /\ probe' = [probe EXCEPT !.done = TRUE, !.by = "Mock",
                 !.out = calculateOverallRiskLevel(probe.impacts)]
  /\ UNCHANGED Service

\* The effort and timeline estimates of a component list.
Estimate ==
  /\ probe.kind = "effort" /\ ~probe.done
  /\ probe' = [probe EXCEPT !.done = TRUE, !.by = "Mock",
                 !.out = [estimatedEffort |-> estimateEffort(probe.impacts),
                          timeline |-> estimateTimeline(probe.impacts)]]
  /\ UNCHANGED Service

AdapterNext ==
  \/ MockRun
  \/ RemoteRun("OpenAI", GptId)
  \/ RemoteRun("Gemini", GeminiId)
  \/ Rollup
  \/ Estimate

AdapterSpec == AdapterInit /\ [][AdapterNext]_vars

(* ------------------------------ properties ----------------------------- *)
\* Slot i starts an invocation for request r in this step.
CallStep(i, r) ==
  /\ started' = started + 1
  /\ Free(i) /\ \A j \in Slots : j < i => ~Free(j)
  /\ inv'[i].req = r

\* The configured default model is one of the configured models.
DefaultModelConfigured ==
  \E k \in 1..Len(config.models) : config.models[k].id = config.defaultModel

\* The entries stored under the key of (model id, request).
StoredFor(modelId, r) ==
  {e \in cache : e.key = modelId \o <<"-">> \o StringifyRequest(Request(r))}

\* The attempt of slot i ends in this step with a result.
SucceedStep(i) == inv[i].pc = "racing" /\ inv'[i].pc = "resolved"

\* C1: with caching on, a call for (default model M, request R) that finds an
\* entry for (M, R) younger than cacheExpiry minutes resolves at once with
\* the stored result (same object, same analysisTimestamp) and makes no
\* adapter call.
C1_CacheHit ==
  [][\A i \in Slots, r \in RequestIds :
       (/\ CallStep(i, r)
        /\ DefaultModelConfigured
        /\ config.analysis.cacheResults)
       => \A e \in StoredFor(config.defaultModel, r) :
            (now - e.timestamp) < config.analysis.cacheExpiry * 60 * 1000
            => /\ inv'[i].pc = "resolved"
               /\ inv'[i].result = e.result
               /\ inv'[i].invoked = 0
               /\ nextId' = nextId
               /\ calls' = calls]_vars

C1_Witness ==
  \E i \in Slots :
    /\ inv[i].pc = "resolved" /\ inv[i].via = "cache"
    /\ inv[i].result.id > 0 /\ inv[i].result.ts < now

\* C2: with caching on, a call that finds an entry for its key whose age is
\* at least cacheExpiry*60*1000 ms is a miss: it is not served from the
\* cache, it invokes the adapter, and a result it returns is the one its own
\* adapter call produced, not a stored one.
C2_CacheExpiry ==
  [][\A i \in Slots :
       /\ \A r \in RequestIds :
            (/\ CallStep(i, r)
             /\ DefaultModelConfigured
             /\ config.analysis.cacheResults)
            => \A e \in StoredFor(config.defaultModel, r) :
                 (now - e.timestamp) >= config.analysis.cacheExpiry * 60 * 1000
                 => /\ inv'[i].via # "cache"
                    /\ inv'[i].invoked = 1
                    /\ nextId' = nextId + 1
       /\ (SucceedStep(i) /\ inv[i].lookup = "stale")
          => /\ inv'[i].result.id = inv[i].call
             /\ inv'[i].result.ts = now
             /\ \A e \in cache : e.result # inv'[i].result]_vars

C2_Witness ==
  \E i \in Slots :
    /\ inv[i].pc = "resolved" /\ inv[i].via = "provider"
    /\ inv[i].lookup = "stale"

\* C3: an invocation that reached the retry loop never invokes its adapter
\* more than maxRetries times, and when it rejects after the loop it has
\* invoked the adapter exactly maxRetries times, each attempt having failed
\* (maxRetries being a number of times, that is, not negative).
C3_RetryExhaustion ==
  \A i \in Slots :
    (inv[i].adapter # NoProvider /\ inv[i].analysis.maxRetries >= 0)
    => /\ inv[i].invoked <= inv[i].analysis.maxRetries
       /\ inv[i].pc \in {"racing", "backoff"} => inv[i].invoked = inv[i].attempt
       /\ inv[i].pc = "rejected"
          => /\ inv[i].invoked = inv[i].analysis.maxRetries
             /\ Len(inv[i].errs) = inv[i].analysis.maxRetries

C3_Witness ==
  \E i \in Slots :
    /\ inv[i].pc = "rejected" /\ inv[i].adapter # NoProvider
    /\ inv[i].analysis.maxRetries = 2 /\ inv[i].invoked = 2

\* C4: when every attempt has failed, the error the caller gets is the error
\* of the last attempt.
C4_LastErrorSurfaced ==
  \A i \in Slots :
    (inv[i].pc = "rejected" /\ inv[i].errs # << >>)
    => inv[i].error = inv[i].errs[Len(inv[i].errs)]

C4_Witness ==
  \E i \in Slots :
    /\ inv[i].pc = "rejected" /\ Len(inv[i].errs) = 2
    /\ inv[i].errs[1] # inv[i].errs[2]
    /\ inv[i].error = inv[i].errs[2]

\* C5: a call whose model names a provider without a registered adapter (and
\* that has no cache hit) rejects at once with the provider error: no adapter
\* call, no attempt, no backoff, cache unchanged.
C5_ProviderNotFoundFatal ==
  [][\A i \in Slots, r \in RequestIds :
       (/\ CallStep(i, r)
        /\ DefaultModelConfigured
        /\ \A k \in 1..Len(config.models) :
             config.models[k].id = config.defaultModel
             => providers[config.models[k].provider] = NoProvider
        /\ inv'[i].via # "cache")
       => /\ inv'[i].pc = "rejected"
          /\ inv'[i].error = ProviderNotFoundError
          /\ inv'[i].invoked = 0 /\ inv'[i].attempt = 0
          /\ inv'[i].errs = << >> /\ inv'[i].delay = 0
          /\ nextId' = nextId /\ calls' = calls
          /\ cache' = cache]_vars

C5_Witness ==
  \E i \in Slots :
    /\ inv[i].pc = "rejected" /\ inv[i].error = ProviderNotFoundError
    /\ inv[i].analysis.maxRetries = 2

\* C6: a missing API key is fatal: the adapter is invoked once, there is no
\* backoff, and the caller gets the error without any retry.
C6_ApiKeyErrorNotRetried ==
  \A i \in Slots :
    (inv[i].errs # << >> /\ inv[i].errs[1] = ApiKeyError(inv[i].adapter))
    => /\ inv[i].pc = "rejected"
       /\ inv[i].invoked = 1
       /\ inv[i].delay = 0

\* C7: when the default model id matches no configured model the call
\* rejects at once: no cache lookup or write, no provider lookup, no adapter
\* call, no attempt.
C7_NoModelFatal ==
  [][\A i \in Slots, r \in RequestIds :
       (CallStep(i, r) /\ ~DefaultModelConfigured)
       => /\ inv'[i].pc = "rejected"
          /\ inv'[i].error = NoModelError
          /\ inv'[i].lookup = "none"
          /\ inv'[i].adapter = NoProvider
          /\ inv'[i].invoked = 0 /\ inv'[i].attempt = 0
          /\ nextId' = nextId /\ calls' = calls
          /\ cache' = cache]_vars

C7_Witness ==
  \E i \in Slots :
    /\ inv[i].pc = "rejected" /\ inv[i].error = NoModelError
    /\ cache # {}

\* The adapter call slot i is racing against its timer.
CallOf(i) == {c \in calls : c.id = inv[i].call}

\* How the catch block leaves slot i after an attempt failed with err.
FailedWith(i, err) ==
  /\ inv'[i].errs = Append(inv[i].errs, err)
  /\ IF inv[i].attempt < inv[i].analysis.maxRetries
     THEN inv'[i].pc = "backoff" /\ inv'[i].attempt = inv[i].attempt
     ELSE inv'[i].pc = "rejected" /\ inv'[i].error = err

\* C8: every attempt races its adapter call against a timer of
\* analysisTimeout ms.  The race is decided by whichever settles first: by
\* the adapter call (result or error) before the timer has fired, or by the
\* timer once it is due, and then the attempt fails with the timeout error,
\* is retried like any other failure, and the adapter call stays pending.  A
\* race is never left undecided past its timer's due time.
C8_TimeoutRace ==
  /\ [](\A i \in Slots :
          inv[i].pc = "racing" => (now <= inv[i].deadline /\ CallOf(i) # {}))
  /\ [][\A i \in Slots :
          /\ (inv[i].pc # "racing" /\ inv'[i].pc = "racing")
             => /\ inv'[i].deadline = now + inv'[i].analysis.analysisTimeout
                /\ inv'[i].call = nextId
                /\ \E c \in calls' \ calls : c.id = nextId
          /\ (inv[i].pc = "racing" /\ inv'[i].pc # "racing")
             => \/ /\ CallOf(i) \cap calls' = {}
                   /\ \/ inv'[i].pc = "resolved" /\ inv'[i].result.id = inv[i].call
                      \/ \E err \in NetFailure : FailedWith(i, err)
                \/ /\ CallOf(i) \subseteq calls'
                   /\ now >= inv[i].deadline
                   /\ FailedWith(i, TimeoutError)]_vars

C8_Witness ==
  \E i \in Slots :
    /\ inv[i].pc = "racing" /\ inv[i].attempt = 2
    /\ inv[i].errs = <<TimeoutError>>
    /\ \E c \in calls : c.id < inv[i].call /\ c.req = inv[i].req
                        /\ \A j \in Slots : inv[j].call # c.id

\* C9: a successful attempt stores its result under the invocation's key,
\* replacing an entry already there, exactly if cacheResults is true; nothing
\* else in analyzeImpact changes the cache.  With cacheResults false a call
\* neither reads nor changes the cache, so no call is served from it: a call
\* that resolves has invoked its adapter.
C9_CacheWritePolicy ==
  /\ [](\A i \in Slots :
          (inv[i].pc = "resolved" /\ ~inv[i].analysis.cacheResults)
          => (inv[i].via = "provider" /\ inv[i].invoked >= 1))
  /\ [][/\ \A i \in Slots :
             SucceedStep(i)
             => LET key == inv[i].model.id \o <<"-">>
                             \o StringifyRequest(Request(inv[i].req))
                IN IF inv[i].analysis.cacheResults
                   THEN cache' = {e \in cache : e.key # key}
                                 \cup {[key |-> key, result |-> inv'[i].result,
                                        timestamp |-> now]}
                   ELSE cache' = cache
        /\ cache' # cache
           => \/ cache' = {}
              \/ \E i \in Slots : SucceedStep(i) /\ inv[i].analysis.cacheResults
        /\ \A i \in Slots, r \in RequestIds :
             (CallStep(i, r) /\ ~config.analysis.cacheResults)
             => /\ inv'[i].via # "cache"
                /\ inv'[i].lookup \in {"none", "skipped"}
                /\ cache' = cache]_vars

C9_Witness ==
  \E i \in Slots :
    /\ inv[i].pc = "resolved" /\ inv[i].via = "provider"
    /\ ~inv[i].analysis.cacheResults
    /\ \E e \in cache :
         /\ e.result.req = inv[i].req /\ e.result.modelId = inv[i].model.id
         /\ e.result # inv[i].result

\* C10: a result served from the cache was stored by an invocation with the
\* same model id and the same request; entries of other models or of
\* requests that differ in any part are never returned.
C10_CacheKeyIsolation ==
  /\ \A i \in Slots :
       inv[i].via = "cache"
       => /\ inv[i].result.modelId = inv[i].model.id
          /\ inv[i].result.req = inv[i].req
  /\ \A e1, e2 \in cache :
       (e1.result.modelId = e2.result.modelId /\ e1.result.req = e2.result.req)
       => e1 = e2

C10_Witness ==
  \E i \in Slots, e \in cache :
    /\ inv[i].pc = "racing" /\ inv[i].attempt = 1 /\ inv[i].lookup = "absent"
    /\ e.timestamp < inv[i].deadline - inv[i].analysis.analysisTimeout
    /\ e.result.modelId = inv[i].model.id
    /\ e.result.req # inv[i].req

\* C17: with the default models and default model, and the adapters
\* registered at construction, a call that is not served from the cache
\* selects the development adapter and goes on to invoke it.
C17_DefaultUsesMock ==
  [][\A i \in Slots, r \in RequestIds :
       (/\ CallStep(i, r)
        /\ config.models = defaultConfig.models
        /\ config.defaultModel = defaultConfig.defaultModel
        /\ config.analysis.maxRetries >= 1
        /\ providers = initializeProviders
        /\ inv'[i].via # "cache")
       => /\ inv'[i].adapter = "Mock"
          /\ inv'[i].pc = "racing"
          /\ inv'[i].error # ProviderNotFoundError]_vars

\* The record of slot i changes in this step.
Moves(i) == inv'[i] # inv[i]

\* The number of failed attempts of the invocation slot i held before this
\* step, none when the step starts a new invocation in the slot.
FailedBefore(i) == IF started' = started THEN Len(inv[i].errs) ELSE 0

\* C19: after failed attempt k < maxRetries the invocation waits k*1000 ms
\* and then starts attempt k+1; the first attempt starts with the call, and
\* the rejection comes in the step of the last failure, without a wait.
C19_LinearBackoff ==
  [][\A i \in Slots :
       /\ (Moves(i) /\ inv'[i].pc = "backoff")
          => /\ inv'[i].attempt = FailedBefore(i) + 1
             /\ inv'[i].attempt < inv'[i].analysis.maxRetries
             /\ inv'[i].delay = inv'[i].attempt * 1000
             /\ inv'[i].deadline = now + inv'[i].attempt * 1000
       /\ (Moves(i) /\ inv[i].pc = "backoff")
          => /\ now >= inv[i].deadline
             /\ inv'[i].attempt = inv[i].attempt + 1
             /\ inv'[i].invoked = inv[i].invoked + 1
       /\ \A r \in RequestIds :
            (/\ CallStep(i, r)
             /\ inv'[i].adapter # NoProvider
             /\ inv'[i].analysis.maxRetries >= 1)
            => /\ inv'[i].invoked = 1
               /\ nextId' = nextId + 1
       /\ (Moves(i) /\ inv'[i].pc = "rejected" /\ inv'[i].errs # << >>)
          => /\ Len(inv'[i].errs) = FailedBefore(i) + 1
             /\ Len(inv'[i].errs) = inv'[i].analysis.maxRetries]_vars

\* An invocation waits 2000 ms after its second failed attempt.
C19_Witness ==
  \E i \in Slots :
    /\ inv[i].pc = "backoff" /\ inv[i].attempt = 2
    /\ inv[i].delay = 2000 /\ inv[i].deadline = now + 2000

Pending(i) == inv[i].pc \in {"racing", "backoff"}
Settled(i) == inv[i].pc \in {"resolved", "rejected"}

\* C18: every invocation settles, also when its adapter calls never do, and
\* it settles once: a resolved or rejected invocation stays as it is (its
\* slot changes only when the caller starts another invocation in it), and
\* a resolved one carries a result and no error, a rejected one an error and
\* no result.
C18_SettlesOnce ==
  /\ \A i \in Slots : Pending(i) ~> Settled(i)
  /\ [][\A i \in Slots :
          /\ (Settled(i) /\ Moves(i)) => started' = started + 1
          /\ inv'[i].pc = "resolved"
             => inv'[i].result # NoResult /\ inv'[i].error = NoError
          /\ inv'[i].pc = "rejected"
             => inv'[i].result = NoResult /\ inv'[i].error # NoError]_vars

\* An invocation rejected after three attempts that all timed out.
C18_Witness ==
  \E i \in Slots :
    /\ inv[i].pc = "rejected"
    /\ inv[i].errs = <<TimeoutError, TimeoutError, TimeoutError>>

\* The cache key of the invocation in slot i, and the keys in use.
KeyOf(i) == inv[i].model.id \o <<"-">> \o StringifyRequest(Request(inv[i].req))
Keys(c) == {e.key : e \in c}

\* C24: analyzeImpact never removes or edits a cache entry.  A step that
\* loses a key is a clearCache step (it empties the cache and touches nothing
\* else); in every other step each entry either stays as it is or is replaced
\* under its own key by the result of the attempt that succeeds in the step;
\* and a call that finds an expired entry for its key leaves it where it is.
C24_EntriesStay ==
  [][/\ (~(Keys(cache) \subseteq Keys(cache')))
        => (cache' = {} /\ UNCHANGED <<inv, calls, nextId, started, now>>)
     /\ (cache' # {})
        => \A e \in cache :
             \/ e \in cache'
             \/ \E i \in Slots :
                  /\ SucceedStep(i) /\ e.key = KeyOf(i)
                  /\ \E f \in cache' : f.key = e.key /\ f.result = inv'[i].result
     /\ \A i \in Slots, r \in RequestIds :
          (CallStep(i, r) /\ inv'[i].lookup = "stale")
          => /\ cache' = cache
             /\ \E e \in cache' :
                  /\ e.key = inv'[i].model.id \o <<"-">> \o StringifyRequest(Request(r))
                  /\ now - e.timestamp >= inv'[i].analysis.cacheExpiry * 60 * 1000]_vars

\* An attempt is under way for a key whose expired entry is still stored.
C24_Witness ==
  \E i \in Slots, e \in cache :
    /\ inv[i].pc = "racing" /\ inv[i].lookup = "stale"
    /\ e.key = KeyOf(i)
    /\ now - e.timestamp >= inv[i].analysis.cacheExpiry * 60 * 1000

\* C25: the cache is written by successful attempts only.  A step of an
\* invocation other than the success of an attempt (its start, a failed
\* attempt, a timeout, the end of a backoff, its rejection for whatever
\* reason) leaves the cache as it is, a rejected invocation hands out no
\* result, and every entry that enters the cache holds the result of the
\* attempt that succeeded in that step.
C25_OnlySuccessWrites ==
  [][/\ \A i \in Slots :
          /\ (Moves(i) /\ ~SucceedStep(i)) => cache' = cache
          /\ (Moves(i) /\ inv'[i].pc = "rejected")
             => /\ cache' = cache
                /\ inv'[i].result = NoResult
                /\ inv'[i].error \in {NoModelError, ProviderNotFoundError,
                                      RetriesExhaustedError, TimeoutError}
                                     \cup NetFailure
                                     \cup {ApiKeyError(k) : k \in AdapterKinds}
     /\ \A e \in cache' \ cache :
          \E i \in Slots :
            /\ SucceedStep(i)
            /\ e = [key |-> KeyOf(i), result |-> inv'[i].result, timestamp |-> now]
            /\ e.result.id = inv[i].call]_vars

\* An invocation rejected after a failed attempt, with caching on, while the
\* expired entry it found under its key is still the one stored.
C25_Witness ==
  \E i \in Slots, e \in cache :
    /\ inv[i].pc = "rejected" /\ inv[i].errs # << >>
    /\ inv[i].analysis.cacheResults /\ inv[i].lookup = "stale"
    /\ e.key = KeyOf(i) /\ e.result.id < nextId - inv[i].invoked

\* The adapter calls no attempt waits for: their race was lost to the timer.
Abandoned == {c \in calls : \A i \in Slots : inv[i].call # c.id}

\* C26: an adapter call abandoned after a timeout settles unobserved: the
\* step in which it resolves or rejects changes no invocation and not the
\* cache, whenever it comes (during a later attempt, during a backoff, after
\* the invocation has settled).  So a result handed to a caller or stored is
\* that of the call of the attempt that succeeded, and a failure is counted
\* for an attempt only when its own call rejects, its own timer is due, or
\* its adapter refuses the call at once for want of an API key.
C26_AbandonedUnobserved ==
  [][/\ \A c \in Abandoned :
          (c \notin calls') => (inv' = inv /\ cache' = cache)
     /\ \A i \in Slots :
          /\ (Moves(i) /\ inv'[i].via = "provider")
             => /\ inv'[i].result.id = inv[i].call
                /\ \A c \in Abandoned : inv'[i].result.id # c.id
          /\ (started' = started /\ inv'[i].errs # inv[i].errs)
             => \/ /\ inv[i].pc = "racing"
                   /\ Len(inv'[i].errs) = inv[i].attempt
                   /\ \/ \E c \in calls \ calls' : c.id = inv[i].call
                      \/ calls' = calls /\ now >= inv[i].deadline
                \/ /\ inv[i].pc = "backoff"
                   /\ Len(inv'[i].errs) = inv[i].attempt + 1
                   /\ inv'[i].errs[Len(inv'[i].errs)] = ApiKeyError(inv[i].adapter)
                   /\ calls' = calls
     /\ \A e \in cache' \ cache, c \in Abandoned : e.result.id # c.id]_vars

\* The second attempt of the only invocation so far is racing after the
\* first timed out, and the call of the first attempt has settled meanwhile.
C26_Witness ==
  \E i \in Slots :
    /\ started = 1 /\ inv[i].pc = "racing" /\ inv[i].attempt = 2
    /\ inv[i].errs = <<TimeoutError>>
    /\ nextId = inv[i].call + 1
    /\ \A c \in calls : c.id = inv[i].call

\* Slot j holds an invocation in flight for request r and model id m.
InFlight(j, m, r) == Pending(j) /\ inv[j].req = r /\ inv[j].model.id = m

\* C27: invocations in flight are not shared.  A call for (model, request)
\* made while another invocation for the same pair is in flight and no valid
\* entry is stored for it misses and invokes the adapter itself, with a call
\* of its own; invocations racing at the same time never wait for the same
\* adapter call; when an attempt succeeds with caching on, the entry under
\* its key holds its result, whatever another invocation stored there
\* before; and two invocations that both got a result from their adapter
\* hold different results.
C27_NotCoalesced ==
  /\ [](\A i, j \in Slots :
          (i # j /\ inv[i].pc = "racing" /\ inv[j].pc = "racing")
          => inv[i].call # inv[j].call)
  /\ [](\A i, j \in Slots :
          (i # j /\ inv[i].via = "provider" /\ inv[j].via = "provider")
          => inv[i].result # inv[j].result)
  /\ [][\A i \in Slots :
          /\ \A r \in RequestIds, j \in Slots \ {i} :
               (/\ CallStep(i, r)
                /\ InFlight(j, config.defaultModel, r)
                /\ DefaultModelConfigured
                /\ config.analysis.maxRetries >= 1
                /\ providers[inv[j].model.provider] # NoProvider
                /\ \A e \in StoredFor(config.defaultModel, r) :
                     (now - e.timestamp) >= config.analysis.cacheExpiry * 60 * 1000)
               => /\ inv'[i].via # "cache"
                  /\ inv'[i].lookup \in {"absent", "stale", "skipped"}
                  /\ inv'[i].invoked = 1
                  /\ nextId' = nextId + 1
                  /\ inv'[i].pc = "racing"
                     => (inv'[i].call = nextId /\ inv'[i].call # inv[j].call)
          /\ (SucceedStep(i) /\ inv[i].analysis.cacheResults)
             => /\ \E e \in cache' : e.key = KeyOf(i)
                /\ \A e \in cache' : e.key = KeyOf(i) => e.result = inv'[i].result]_vars

\* Two invocations for the same request and model, both resolved by their
\* adapter after a miss on an empty slot of the cache: the one whose call
\* was made first completed last, so each made its cache check before the
\* other stored, and its result is the one stored.
C27_Witness ==
  \E i, j \in Slots, e \in cache :
    /\ i # j
    /\ inv[i].pc = "resolved" /\ inv[j].pc = "resolved"
    /\ inv[i].via = "provider" /\ inv[j].via = "provider"
    /\ inv[i].req = inv[j].req /\ inv[i].model.id = inv[j].model.id
    /\ inv[i].lookup = "absent" /\ inv[j].lookup = "absent"
    /\ inv[i].attempt = 1 /\ inv[j].attempt = 1
    /\ inv[j].result.id < inv[i].result.id
    /\ inv[j].result.ts > inv[i].result.ts
    /\ e.key = KeyOf(j) /\ e.result = inv[j].result

\* C28: an invocation works on what it read when it was called.  The call
\* takes the analysis settings, the default model and the adapter registered
\* for the model's provider as they are then; updateConfig and
\* registerProvider change no invocation and no adapter call; as long as the
\* invocation is in flight its model, adapter and settings stay the same;
\* each later attempt calls that adapter for that model, whatever is
\* registered or configured by then; and a result is stored under the key of
\* that model id and under no other.
C28_ReadOnce ==
  [][\A i \in Slots :
       /\ \A r \in RequestIds :
            (CallStep(i, r) /\ inv'[i].pc \in {"racing", "backoff"})
            => /\ inv'[i].model.id = config.defaultModel
               /\ inv'[i].adapter = providers[inv'[i].model.provider]
               /\ inv'[i].analysis = config.analysis
       /\ (config' # config \/ providers' # providers)
          => (inv' = inv /\ calls' = calls /\ cache' = cache)
       /\ Pending(i)
          => /\ inv'[i].model = inv[i].model
             /\ inv'[i].adapter = inv[i].adapter
             /\ inv'[i].analysis = inv[i].analysis
             /\ inv'[i].req = inv[i].req
       /\ (inv[i].pc = "backoff" /\ inv'[i].pc = "racing")
          => \E c \in calls' \ calls :
               /\ c.id = inv'[i].call
               /\ c.kind = inv[i].adapter
               /\ c.modelId = inv[i].model.id
       /\ (SucceedStep(i) /\ inv[i].analysis.cacheResults)
          => /\ \E e \in cache' : e.key = KeyOf(i) /\ e.result = inv'[i].result
             /\ \A e \in cache' \ cache : e.key = KeyOf(i)
             /\ inv'[i].result.modelId = inv[i].model.id]_vars

\* The second attempt of an invocation is racing on the adapter it selected
\* when it was called, after another adapter was registered in its place.
C28_Witness ==
  \E i \in Slots :
    /\ inv[i].pc = "racing" /\ inv[i].attempt = 2
    /\ providers[inv[i].model.provider] # inv[i].adapter
    /\ \E c \in calls : c.id = inv[i].call /\ c.kind = inv[i].adapter

\* An invocation resolved by its second attempt after the default model was
\* changed: its result is stored under the model id it was called with.
C28_OtherDefault ==
  \E i \in Slots, e \in cache :
    /\ inv[i].pc = "resolved" /\ inv[i].via = "provider" /\ inv[i].attempt = 2
    /\ config.defaultModel # inv[i].model.id
    /\ e.key = KeyOf(i) /\ e.result = inv[i].result

\* C30: a call that reaches the retry loop (model found, no cache hit,
\* adapter registered) with maxRetries zero or negative makes no adapter
\* call and rejects at once with 'Analysis failed after all retries', and the
\* cache is as it was.
C30_NoAttempts ==
  [][\A i \in Slots, r \in RequestIds :
       (/\ CallStep(i, r)
        /\ config.analysis.maxRetries <= 0
        /\ getDefaultAIModel(config) # NoModel
        /\ providers[getDefaultAIModel(config).provider] # NoProvider
        /\ inv'[i].via # "cache")
       => /\ inv'[i].pc = "rejected"
          /\ inv'[i].error = RetriesExhaustedError
          /\ inv'[i].invoked = 0 /\ inv'[i].errs = << >>
          /\ nextId' = nextId /\ calls' = calls
          /\ cache' = cache]_vars

\* A call with maxRetries -1 that reached the loop and made no attempt.
C30_Witness ==
  \E i \in Slots :
    /\ inv[i].pc = "rejected" /\ inv[i].error = RetriesExhaustedError
    /\ inv[i].analysis.maxRetries = -1 /\ inv[i].invoked = 0
    /\ inv[i].adapter # NoProvider

(* -------------------- properties of the adapters' results -------------- *)
\* The adapter of the given kind of input has produced its output.
Ran(kind) == probe.kind = kind /\ probe.done

NumberOf(impacts, level) ==
  Cardinality({k \in DOMAIN impacts : impacts[k].impactLevel = level})

\* level is what the decision list gives for the component list.
RolledUp(impacts, level) ==
  LET critical == NumberOf(impacts, "CRITICAL")
      high == NumberOf(impacts, "HIGH")
  IN /\ (critical > 0) => (level = "CRITICAL")
     /\ (critical = 0 /\ high > 2) => (level = "HIGH")
     /\ (critical = 0 /\ high <= 2 /\ (high > 0 \/ Len(impacts) > 3))
          => (level = "MEDIUM")
     /\ (critical = 0 /\ high = 0 /\ Len(impacts) <= 3) => (level = "LOW")

\* C11: the overall severity of a component list is CRITICAL if any
\* component is CRITICAL, else HIGH if more than two are HIGH, else MEDIUM if
\* any is HIGH or there are more than three components, else LOW; this holds
\* of the rollup applied to any list and of every result of the development
\* adapter.
C11_SeverityRollup ==
  /\ Ran("impacts") => RolledUp(probe.impacts, probe.out)
  /\ Ran("request") =>
       RolledUp(probe.out.impactedComponents, probe.out.riskLevel)

\* A list with a CRITICAL component and three HIGH ones was rated CRITICAL.
C11_Witness ==
  /\ Ran("impacts")
  /\ NumberOf(probe.impacts, "CRITICAL") = 1
  /\ NumberOf(probe.impacts, "HIGH") = 3
  /\ probe.out = "CRITICAL"

\* The type and impactLevel of each component of a list, in order.
Kinds(impacts) ==
  [k \in DOMAIN impacts |-> <<impacts[k].type, impacts[k].impactLevel>>]

MentionsDatabase(diagram) ==
  /\ diagram.type = <<"mermaid">>
  /\ diagram.content # Undefined
  /\ \E i, j \in DOMAIN diagram.content :
       SubSeq(diagram.content, i, j) = DatabaseWord

C12_Scenario ==
  /\ probe.kind = "request"
  /\ probe.request.architecture = <<"microservices">>
  /\ Len(probe.request.servers) = 1
  /\ probe.request.servers[1].type = <<"container">>
  /\ Len(probe.request.diagrams) = 1
  /\ MentionsDatabase(probe.request.diagrams[1])

\* C12: for a microservices request with one container server and one
\* mermaid diagram whose source contains "database", the development adapter
\* returns the three components service/MEDIUM, server/MEDIUM and
\* database/HIGH, overall risk MEDIUM, and as dependencies the three
\* microservices names followed by the two container names.
C12_MicroservicesScenario ==
  (C12_Scenario /\ probe.done) =>
    /\ Kinds(probe.out.impactedComponents)
         = << <<"service", "MEDIUM">>, <<"server", "MEDIUM">>,
              <<"database", "HIGH">> >>
    /\ probe.out.riskLevel = "MEDIUM"
    /\ probe.out.dependencies
         = <<"Service Discovery Service", "API Gateway", "Load Balancer",
             "Container Orchestration Platform", "Container Registry">>

C12_Witness ==
  /\ C12_Scenario /\ probe.done
  /\ probe.request.diagrams[1].content = <<"erDiagram", " ">> \o DatabaseWord
  /\ Len(probe.out.dependencies) = 5

NoServersNoDiagrams(architecture) ==
  /\ probe.kind = "request"
  /\ probe.request.architecture = architecture
  /\ probe.request.servers = << >>
  /\ probe.request.diagrams = << >>

\* C13: for a monolithic request without servers and diagrams, whatever the
\* change request, the development adapter returns exactly one component, a
\* service of severity HIGH, and overall risk MEDIUM.
C13_MonolithicAlone ==
  (NoServersNoDiagrams(<<"monolithic">>) /\ probe.done) =>
    /\ Kinds(probe.out.impactedComponents) = << <<"service", "HIGH">> >>
    /\ probe.out.riskLevel = "MEDIUM"

C13_Witness ==
  /\ NoServersNoDiagrams(<<"monolithic">>) /\ probe.done
  /\ probe.request.changeRequest.type = <<"file">>
  /\ Len(probe.out.impactedComponents) = 1

\* C14: for a client-server request without servers and diagrams the
\* development adapter returns no component, overall risk LOW and no
\* dependency.
C14_ClientServerAlone ==
  (NoServersNoDiagrams(<<"client-server">>) /\ probe.done) =>
    /\ probe.out.impactedComponents = << >>
    /\ probe.out.riskLevel = "LOW"
    /\ probe.out.dependencies = << >>

C14_Witness ==
  /\ NoServersNoDiagrams(<<"client-server">>) /\ probe.done
  /\ probe.out.riskLevel = "LOW"

\* The name of the model a remote adapter of the given kind ran under.
ModelNameOf(kind) ==
  getAIModel(config, IF kind = "OpenAI" THEN GptId ELSE GeminiId).name

\* The reply text carries a JSON object that parses.
Parsable(response) == HasJsonMatch(response) /\ JsonParses(JsonMatch(response))

LacksField(response) ==
  \E k \in DOMAIN ReplyFields : ReplyFields[k] \notin ParsedKeys(JsonMatch(response))

\* C15: when the reply text of a remote backend holds no JSON object that
\* parses, or holds one that lacks any of the fields summary, riskLevel,
\* impactedComponents, recommendations, estimatedEffort, timeline and
\* dependencies, the adapter returns the fixed canned result.
C15_ParseFallback ==
  (Ran("reply") /\ (~Parsable(probe.response) \/ LacksField(probe.response)))
    => probe.out = generateFallbackResponse(probe.by, ModelNameOf(probe.by), now)

\* C16: the overall risk level of every result an adapter returns, and
\* analyzeImpact passes on unchanged, is the severity rollup of the result's
\* own component list.
C16_RiskDerived ==
  ((Ran("request") \/ Ran("reply"))
   /\ {"riskLevel", "impactedComponents"} \subseteq DOMAIN probe.out)
    => RolledUp(probe.out.impactedComponents, probe.out.riskLevel)

ArchitectureKinds(architecture) ==
  CASE architecture = <<"microservices">> -> << <<"service", "MEDIUM">> >>
    [] architecture = <<"monolithic">> -> << <<"service", "HIGH">> >>
    [] OTHER -> << >>

IsReported(server) == server.type \in {<<"container">>, <<"serverless">>}

ServerKinds(servers) ==
  LET reported == SelectSeq(servers, IsReported)
  IN [k \in DOMAIN reported |->
        <<"server",
          IF reported[k].type = <<"container">> THEN "MEDIUM" ELSE "LOW">>]

DiagramKinds(diagrams) ==
  LET matching == SelectSeq(diagrams, MentionsDatabase)
  IN [k \in DOMAIN matching |-> <<"database", "HIGH">>]

\* C20: the development adapter's component list is, without deduplication,
\* the architecture pass (service/MEDIUM for microservices, service/HIGH for
\* monolithic, nothing otherwise), then one server/MEDIUM per container
\* server and one server/LOW per serverless server in server order, then one
\* database/HIGH per mermaid diagram whose non-empty source contains
\* "database" in diagram order.
C20_ThreePasses ==
  Ran("request") =>
    Kinds(probe.out.impactedComponents)
      = ArchitectureKinds(probe.request.architecture)
        \o ServerKinds(probe.request.servers)
        \o DiagramKinds(probe.request.diagrams)

\* Two container servers between which a virtual one stands, and two
\* diagrams naming a database, gave five components.
C20_Witness ==
  /\ Ran("request")
  /\ probe.request.architecture = <<"monolithic">>
  /\ Len(probe.request.servers) = 3
  /\ probe.request.servers[1].type = <<"container">>
  /\ probe.request.servers[2].type = <<"virtual">>
  /\ probe.request.servers[3].type = <<"container">>
  /\ Len(probe.request.diagrams) = 2
  /\ \A k \in 1..2 : MentionsDatabase(probe.request.diagrams[k])
  /\ Len(probe.out.impactedComponents) = 5
  /\ probe.out.impactedComponents[3].index = 3

\* The sum of the severity weights of a component list.
Weight(impacts) ==
  4 * NumberOf(impacts, "CRITICAL") + 3 * NumberOf(impacts, "HIGH")
  + 2 * NumberOf(impacts, "MEDIUM") + NumberOf(impacts, "LOW")

Bucketed(impacts, effort) ==
  /\ (Weight(impacts) <= 3) => (effort = "1-2 weeks")
  /\ (3 < Weight(impacts) /\ Weight(impacts) <= 6) => (effort = "2-4 weeks")
  /\ (6 < Weight(impacts) /\ Weight(impacts) <= 10) => (effort = "1-2 months")
  /\ (Weight(impacts) > 10) => (effort = "2-3 months")

\* C21: the estimated effort of a component list is "1-2 weeks" for a total
\* weight (CRITICAL 4, HIGH 3, MEDIUM 2, LOW 1) up to 3, "2-4 weeks" up to 6,
\* "1-2 months" up to 10 and "2-3 months" above; this holds of the estimate
\* of any list and of every result of the development adapter.
C21_EffortBuckets ==
  /\ Ran("effort") => Bucketed(probe.impacts, probe.out.estimatedEffort)
  /\ Ran("request") =>
       Bucketed(probe.out.impactedComponents, probe.out.estimatedEffort)

\* A list of total weight 10 was estimated at "1-2 months".
C21_Witness ==
  /\ Ran("effort")
  /\ Weight(probe.impacts) = 10
  /\ probe.out.estimatedEffort = "1-2 months"

Suffixed(impacts, effort, timeline) ==
  timeline = <<effort,
               IF \E k \in DOMAIN impacts : impacts[k].impactLevel = "CRITICAL"
               THEN " (Urgent - Critical impacts detected)"
               ELSE " (Standard timeline)">>

\* C22: the timeline is the estimated effort of the same result followed by
\* " (Urgent - Critical impacts detected)" when a component is CRITICAL and
\* by " (Standard timeline)" otherwise.
C22_TimelineFromEffort ==
  /\ Ran("effort") =>
       Suffixed(probe.impacts, probe.out.estimatedEffort, probe.out.timeline)
  /\ Ran("request") =>
       Suffixed(probe.out.impactedComponents, probe.out.estimatedEffort,
                probe.out.timeline)

\* A result with a HIGH component and a standard timeline of two months.
C22_Witness ==
  /\ Ran("request")
  /\ NumberOf(probe.out.impactedComponents, "HIGH") > 0
  /\ probe.out.timeline = <<"1-2 months", " (Standard timeline)">>

ServerTypes(request) ==
  {request.servers[k].type : k \in DOMAIN request.servers}

\* C23: the dependencies are three fixed names iff the architecture is
\* microservices, then two fixed names iff some server is a container, then
\* two fixed names iff some server is serverless, each group once whatever
\* the number of such servers; their number is 0, 2, 3, 4, 5 or 7.
C23_DependenciesByPresence ==
  Ran("request") =>
    /\ probe.out.dependencies
         = (IF probe.request.architecture = <<"microservices">>
            THEN <<"Service Discovery Service", "API Gateway", "Load Balancer">>
            ELSE << >>)
           \o (IF <<"container">> \in ServerTypes(probe.request)
               THEN <<"Container Orchestration Platform", "Container Registry">>
               ELSE << >>)
           \o (IF <<"serverless">> \in ServerTypes(probe.request)
               THEN <<"Serverless Platform", "Event Bus">>
               ELSE << >>)
    /\ Len(probe.out.dependencies) \in {0, 2, 3, 4, 5, 7}

\* Two container servers and a serverless one under microservices gave the
\* seven names.
C23_Witness ==
  /\ Ran("request")
  /\ probe.request.architecture = <<"microservices">>
  /\ Len(probe.request.servers) = 3
  /\ probe.request.servers[1].type = <<"container">>
  /\ probe.request.servers[2].type = <<"container">>
  /\ probe.request.servers[3].type = <<"serverless">>
  /\ Len(probe.out.dependencies) = 7

\* The number of HIGH components a request leads to.
HighSources(request) ==
  (IF request.architecture = <<"monolithic">> THEN 1 ELSE 0)
  + Cardinality({k \in DOMAIN request.diagrams :
                   MentionsDatabase(request.diagrams[k])})

\* C29: the development adapter produces no CRITICAL component, its overall
\* risk is LOW, MEDIUM or HIGH, its timeline ends with "(Standard timeline)",
\* and its overall risk is HIGH exactly when the architecture being
\* monolithic and the mermaid diagrams containing "database" count three or
\* more.
C29_NeverCritical ==
  Ran("request") =>
    /\ NumberOf(probe.out.impactedComponents, "CRITICAL") = 0
    /\ probe.out.riskLevel \in {"LOW", "MEDIUM", "HIGH"}
    /\ probe.out.timeline[Len(probe.out.timeline)] = " (Standard timeline)"
    /\ (probe.out.riskLevel = "HIGH") <=> (HighSources(probe.request) >= 3)

C29_Witness ==
  /\ Ran("request")
  /\ probe.out.riskLevel = "HIGH"
  /\ HighSources(probe.request) = 3

====
